---- MODULE Spec2Model ----
(***************************************************************************)
(* Model of the document-signing tool: the signing page (SignDocument,     *)
(* built from the hooks useSignatureManagement, usePlaceholderManagement   *)
(* and useDocumentFinalization), the DocumentViewer it mounts, and the     *)
(* template hook useTemplateManagement.                                    *)
(*                                                                         *)
(* React state is modelled as it behaves: a state variable holds the       *)
(* value the queued updates produce; a handler reads the state through the *)
(* closure of the render that created it ("rendered"), so a read may be    *)
(* stale until the next render, while a functional update (prev => ...)    *)
(* always applies to the current value.                                    *)
(*                                                                         *)
(* Spec is the signing page with its viewer, SpecTemplate the template     *)
(* hook, SpecFinalize the finalization hook called with any arguments; an  *)
(* await of handleFinalizeDocument is a step of its own that may fail.     *)
(* SpecCanvas is the canvas path of the finalization with overlays at the  *)
(* edges of the canvas, SpecControls the Finalize button in front of the   *)
(* hook, SpecViewer the viewer's zoom and pointer handlers, SpecRecipients *)
(* the recipient dialog and SpecSave localStorage and savePlaceholders.    *)
(* SpecSnapshot is the signing page with a finalization in flight,         *)
(* SpecControlsFair is SpecControls with every awaited step settling, and  *)
(* SpecRecord the record of one document as placeholders and recipients    *)
(* are saved into it.                                                      *)
(***************************************************************************)
EXTENDS Integers, Sequences, FiniteSets, TLC

VARIABLES
    signatureImage,        \* useSignatureManagement: signatureImage (NoImage = null)
    signatures,            \* useSignatureManagement: signatures, the overlay store
    placeholders,          \* useDocumentLoader: placeholders, the page's placeholder store
    pageNumber,            \* DocumentViewer: pageNumber (1-based)
    rendered,              \* what the closures of the last render captured
    mountSignatureImage,   \* signatureImage captured by the first render of the viewer
    nextId,                \* source of fresh placeholder ids
    senderPlaceholders,    \* useTemplateManagement: senderPlaceholders
    recipientPlaceholders, \* useTemplateManagement: recipientPlaceholders
    lastOp,                \* history: the last handler that ran and what it was given
    isProcessing,          \* useDocumentFinalization: isProcessing
    signedPdfUrl,          \* useDocumentFinalization: signedPdfUrl (0 = null, n = the url made by call n)
    pc,                    \* handleFinalizeDocument: the await the call in flight is suspended at
    fFile,                 \* handleFinalizeDocument: its argument file
    fSignatures,           \* handleFinalizeDocument: its argument signatures
    fPlaceholders,         \* handleFinalizeDocument: its argument placeholders
    k,                     \* handleFinalizeDocument: position of the signature loop
    drawn,                 \* what the call has drawn on the document so far
    canvas,                \* handleFinalizeDocument: canvas.width, canvas.height
    outcome,               \* history: how the last call ended
    priorUrl,              \* history: signedPdfUrl when the last call began
    runs,                  \* history: calls that got past the guard
    renderedProcessing,    \* DocumentControls: isProcessing as last rendered
    scale,                 \* DocumentViewer: scale, in tenths (10 = 1.0)
    drift,                 \* scale's distance from the double nearest that decimal, in
                           \* units in the last place
    isDraggingPlaceholder, \* DocumentViewer: isDraggingPlaceholder
    isDraggingSignature,   \* DocumentViewer: isDraggingSignature
    draggingSignatureIndex, \* DocumentViewer: draggingSignatureIndex (NoIndex = null)
    draggedPlaceholderId,  \* usePlaceholderManagement: draggedPlaceholderId (NoId = null)
    pointer,               \* history: the last pointer event, its offset and the scale then
    calls,                 \* history: the callbacks the last pointer event made
    recipients,            \* RecipientOrderDialog: recipients
    orderType,             \* RecipientOrderDialog: orderType
    now,                   \* Date.now()
    dialogOp,              \* history: the last handler of the dialog and the list it found
    storage,               \* localStorage: the length of the value of each key (0 = no item)
    saveOp,                \* history: the last savePlaceholders call and the storage it found
    records                \* localStorage: what the item of each document id parses to

pageVars == <<signatureImage, signatures, placeholders, pageNumber, rendered,
              mountSignatureImage, nextId, senderPlaceholders,
              recipientPlaceholders, lastOp>>

finalizeVars == <<isProcessing, signedPdfUrl, pc, fFile, fSignatures,
                  fPlaceholders, k, drawn, canvas, outcome, priorUrl, runs,
                  renderedProcessing>>

viewerVars == <<scale, drift, isDraggingPlaceholder, isDraggingSignature,
                draggingSignatureIndex, draggedPlaceholderId, pointer, calls>>

dialogVars == <<recipients, orderType, now, dialogOp>>

storageVars == <<storage, saveOp, records>>

restVars == <<viewerVars, dialogVars, storageVars>>

vars == <<pageVars, finalizeVars, restVars>>

---------------------------------------------------------------------------
(* Bounds and domains *)

MaxSignatures == 2
MaxCreates == 2
MaxTemplate == 2
NumPages == 2

NoImage == "none"
Images == {"sigA"}
Types == {"signature", "text"}
\* "none": the dragged item carries no category (PlaceholderSidebar's items)
Categories == {"sender", "recipient", "none"}
XS == {0, 3}
YS == {0, 10}

Tolerance == 5

---------------------------------------------------------------------------
(* Helpers *)

Abs(n) == IF n < 0 THEN -n ELSE n

LabelOf(type) == IF type = "signature" THEN "Signature" ELSE "Full Name"

SamePosition(a, b) == a.x = b.x /\ a.y = b.y /\ a.page = b.page

WithinTolerance(a, b) ==
    a.page = b.page /\ Abs(a.x - b.x) < Tolerance /\ Abs(a.y - b.y) < Tolerance

CountAt(sigs, pos) == Cardinality({i \in DOMAIN sigs : SamePosition(sigs[i], pos)})

\* The closure a handler of the last render runs in.
Env(img, sigs, phs, pg) ==
    [signatureImage |-> img, signatures |-> sigs, placeholders |-> phs,
     pageNumber |-> pg]

\* The closure of the viewer's first render: the page has loaded the saved
\* signature (if any); nothing is placed yet and page 1 is shown.
MountEnv == Env(mountSignatureImage, <<>>, <<>>, 1)

\* DocumentViewer: placeholders = externalPlaceholders || internalPlaceholders.
\* The signing page passes no placeholders prop, and with onUpdatePlaceholders
\* given setInternalPlaceholders is never called: the viewer's own list stays
\* the initial empty array.
internalPlaceholders == <<>>

---------------------------------------------------------------------------
(* useSignatureManagement *)

\* handleApplySignature, as run in closure env against the current store sigs:
\* the duplicate check reads the closure's signatures, the append is a
\* functional update of the store.
handleApplySignature(env, sigs, pos) ==
    IF env.signatureImage = NoImage THEN sigs
    ELSE IF \E i \in DOMAIN env.signatures : SamePosition(env.signatures[i], pos)
         THEN sigs
         ELSE Append(sigs, [url |-> env.signatureImage, x |-> pos.x, y |-> pos.y,
                            page |-> pos.page])

---------------------------------------------------------------------------
(* usePlaceholderManagement *)

NeedsSignature(p) == p.type = "signature" /\ p.value = ""

\* handleUpdatePlaceholders, the back-fill loop: the overlay store after
\* handleApplySignature has run for each unfilled signature placeholder of
\* list, in order.
RECURSIVE ApplyEach(_, _, _)
ApplyEach(env, sigs, list) ==
    IF list = <<>> THEN sigs
    ELSE ApplyEach(env,
                   IF NeedsSignature(Head(list))
                   THEN handleApplySignature(env, sigs, Head(list))
                   ELSE sigs,
                   Tail(list))

\* handleUpdatePlaceholders: the list as stored (the loop assigns value on the
\* very objects of the list it has just stored).
Backfilled(env, list) ==
    IF env.signatureImage = NoImage THEN list
    ELSE [i \in DOMAIN list |->
            IF NeedsSignature(list[i])
            THEN [list[i] EXCEPT !.value = env.signatureImage]
            ELSE list[i]]

BackfillOverlays(env, sigs, list) ==
    IF env.signatureImage = NoImage THEN sigs ELSE ApplyEach(env, sigs, list)

---------------------------------------------------------------------------
(* DocumentViewer *)

\* addPlaceholder: the record it builds.
NewPlaceholder(env, id, type, category, x, y) ==
    [id |-> id, type |-> type, label |-> LabelOf(type), x |-> x, y |-> y,
     page |-> env.pageNumber - 1,
     value |-> IF type = "signature" /\ category = "sender"
                  /\ env.signatureImage # NoImage
               THEN env.signatureImage ELSE "",
     category |-> category]

\* The viewer's setPlaceholders when onUpdatePlaceholders is given: the updater
\* is applied to the viewer's own list and the result handed to the page.
ViewerSetPlaceholders(updated) == updated

\* The render that follows a state change, with the viewer's effect
\* useEffect(() => onUpdatePlaceholders(placeholders), [placeholders,
\* onUpdatePlaceholders]): every render of the page creates a new
\* handleUpdatePlaceholders, so the effect runs after each page render and
\* hands the viewer's own list to the page.
Commit(img, sigs, phs, pg) ==
    LET env == Env(img, sigs, phs, pg)
        pageRendered == <<img, sigs, phs>> #
            <<rendered.signatureImage, rendered.signatures, rendered.placeholders>>
    IN  /\ rendered' = env
        /\ placeholders' = IF pageRendered
                           THEN Backfilled(env, ViewerSetPlaceholders(internalPlaceholders))
                           ELSE phs
        /\ signatures' = IF pageRendered
                         THEN BackfillOverlays(env, sigs, internalPlaceholders)
                         ELSE sigs
        /\ signatureImage' = img
        /\ pageNumber' = pg

Dirty == rendered # Env(signatureImage, signatures, placeholders, pageNumber)

OtherOp == [op |-> "other"]

---------------------------------------------------------------------------
(* Actions of the signing page *)

\* A render scheduled by updates made outside a discrete event (a drop, a
\* pointer move).
Render ==
    /\ Dirty
    /\ Commit(signatureImage, signatures, placeholders, pageNumber)
    /\ lastOp' = OtherOp
    /\ UNCHANGED <<finalizeVars, restVars>>
    /\ UNCHANGED <<mountSignatureImage, nextId, senderPlaceholders, recipientPlaceholders>>

\* useSignatureManagement.handleSignatureCreate (SignatureDialog's button).
handleSignatureCreate(img) ==
    /\ Commit(img, signatures, placeholders, pageNumber)
    /\ lastOp' = OtherOp
    /\ UNCHANGED <<finalizeVars, restVars>>
    /\ UNCHANGED <<mountSignatureImage, nextId, senderPlaceholders, recipientPlaceholders>>

\* DocumentViewer useDrop's drop -> addPlaceholder -> setPlaceholders ->
\* handleUpdatePlaceholders. x, y are the document-space coordinates the drop
\* computed. useDrop is given a spec function and no dependency array, so the
\* drop may run in the closure of the viewer's first render or in that of the
\* last one: env is either.
Drop(env, type, category, x, y) ==
    LET new == NewPlaceholder(env, nextId, type, category, x, y)
        list == ViewerSetPlaceholders(Append(internalPlaceholders, new))
    IN  /\ nextId <= MaxCreates
        /\ Len(signatures) < MaxSignatures
        /\ placeholders' = Backfilled(env, list)
        /\ signatures' = BackfillOverlays(env, signatures, list)
        /\ nextId' = nextId + 1
        /\ lastOp' = [op |-> "addPlaceholder", id |-> nextId,
                      applied |-> NeedsSignature(new) /\ env.signatureImage # NoImage,
                      countBefore |-> CountAt(signatures, new)]
        /\ UNCHANGED <<finalizeVars, restVars>>
        /\ UNCHANGED <<signatureImage, pageNumber, rendered, mountSignatureImage,
                       senderPlaceholders, recipientPlaceholders>>

\* usePlaceholderManagement.handlePlaceholderMove (the viewer's pointer move
\* while a placeholder is dragged).
handlePlaceholderMove(id, newX, newY) ==
    LET env == rendered
        found == {i \in DOMAIN env.placeholders : env.placeholders[i].id = id}
        placeholder == env.placeholders[CHOOSE i \in found : \A j \in found : i <= j]
    IN  /\ placeholders' = [i \in DOMAIN placeholders |->
                              IF placeholders[i].id = id
                              THEN [placeholders[i] EXCEPT !.x = newX, !.y = newY]
                              ELSE placeholders[i]]
        /\ signatures' =
              IF found # {} /\ placeholder.type = "signature" /\ placeholder.value # ""
              THEN [i \in DOMAIN signatures |->
                      IF WithinTolerance(signatures[i], placeholder)
                      THEN [signatures[i] EXCEPT !.x = newX, !.y = newY]
                      ELSE signatures[i]]
              ELSE signatures
        /\ lastOp' = OtherOp
        /\ UNCHANGED <<finalizeVars, restVars>>
        /\ UNCHANGED <<signatureImage, pageNumber, rendered, mountSignatureImage,
                       nextId, senderPlaceholders, recipientPlaceholders>>

\* useSignatureManagement.handleSignatureMove (the viewer's pointer move while
\* an overlay is dragged).
handleSignatureMove(signatureIndex, newX, newY) ==
    LET env == rendered
    IN  /\ signatureIndex \in DOMAIN env.signatures   \* else: early return
        /\ signatureIndex \in DOMAIN signatures
        /\ signatures' = [signatures EXCEPT ![signatureIndex] =
                              [@ EXCEPT !.x = newX, !.y = newY]]
        /\ lastOp' = OtherOp
        /\ UNCHANGED <<finalizeVars, restVars>>
        /\ UNCHANGED <<signatureImage, placeholders, pageNumber, rendered,
                       mountSignatureImage, nextId, senderPlaceholders,
                       recipientPlaceholders>>

\* usePlaceholderManagement.handlePlaceholderDelete: the stores after it.
DeleteCascade(deleted, sigs) ==
    SelectSeq(sigs, LAMBDA sig : ~SamePosition(sig, deleted))

\* DocumentViewer.handleDeletePlaceholder (the delete button): the viewer's
\* setPlaceholders, then the page's handlePlaceholderDelete.
handleDeletePlaceholder(id) ==
    LET env == rendered
        list == ViewerSetPlaceholders(
                    SelectSeq(internalPlaceholders, LAMBDA p : p.id # id))
        phs1 == Backfilled(env, list)
        sigs1 == BackfillOverlays(env, signatures, list)
        found == {i \in DOMAIN env.placeholders : env.placeholders[i].id = id}
        deleted == env.placeholders[CHOOSE i \in found : \A j \in found : i <= j]
        phs2 == IF found # {} THEN SelectSeq(phs1, LAMBDA p : p.id # id) ELSE phs1
        sigs2 == IF found # {} /\ deleted.type = "signature"
                 THEN DeleteCascade(deleted, sigs1) ELSE sigs1
    IN  /\ id < nextId
        /\ Commit(signatureImage, sigs2, phs2, pageNumber)
        /\ lastOp' = IF found # {}
                     THEN [op |-> "delete", deleted |-> deleted, before |-> signatures]
                     ELSE OtherOp
        /\ UNCHANGED <<finalizeVars, restVars>>
        /\ UNCHANGED <<mountSignatureImage, nextId, senderPlaceholders,
                       recipientPlaceholders>>

\* DocumentViewer.handlePrevPage / handleNextPage.
handlePrevPage ==
    /\ Commit(signatureImage, signatures, placeholders,
              IF pageNumber - 1 > 1 THEN pageNumber - 1 ELSE 1)
    /\ lastOp' = OtherOp
    /\ UNCHANGED <<finalizeVars, restVars>>
    /\ UNCHANGED <<mountSignatureImage, nextId, senderPlaceholders, recipientPlaceholders>>

handleNextPage ==
    /\ Commit(signatureImage, signatures, placeholders,
              IF pageNumber + 1 < NumPages THEN pageNumber + 1 ELSE NumPages)
    /\ lastOp' = OtherOp
    /\ UNCHANGED <<finalizeVars, restVars>>
    /\ UNCHANGED <<mountSignatureImage, nextId, senderPlaceholders, recipientPlaceholders>>

---------------------------------------------------------------------------
(* useTemplateManagement *)

handleAddPlaceholder(type, x, y, page, category, image) ==
    LET newPlaceholder ==
            [id |-> nextId, type |-> type, label |-> LabelOf(type), x |-> x,
             y |-> y, page |-> page,
             value |-> IF type = "signature" /\ category = "sender" /\ image # NoImage
                       THEN image ELSE "",
             category |-> category]
    IN  /\ nextId <= MaxCreates
        /\ Len(senderPlaceholders) + Len(recipientPlaceholders) < MaxTemplate
        /\ IF category = "sender"
           THEN /\ senderPlaceholders' = Append(senderPlaceholders, newPlaceholder)
                /\ UNCHANGED recipientPlaceholders
           ELSE /\ recipientPlaceholders' = Append(recipientPlaceholders, newPlaceholder)
                /\ UNCHANGED senderPlaceholders
        /\ nextId' = nextId + 1
        /\ lastOp' = [op |-> "handleAddPlaceholder", id |-> nextId,
                      imageKnown |-> image # NoImage]
        /\ UNCHANGED <<finalizeVars, restVars>>
        /\ UNCHANGED <<signatureImage, signatures, placeholders, pageNumber,
                       rendered, mountSignatureImage>>

---------------------------------------------------------------------------
(* useDocumentFinalization *)

MaxOverlays == 2
MaxFields == 2
MaxRuns == 2

SignatureWidth == 200
SignatureHeight == 50
TextOffset == 20
TextSize == 12
CanvasWidth == 800
CanvasHeight == 600
TextBoxWidth == 150
TextBoxHeight == 25
TextClampWidth == 100
TextClampHeight == 20

NoFile == [type |-> "none", pages |-> <<>>, width |-> 0, height |-> 0]

\* Heights of the pages of the PDF documents the calls are given (points).
PageHeights == <<792, 842>>

\* The files the calls are given: none, a PDF of one page or more, an image,
\* and a file of any other type.
Files ==
    {NoFile}
    \cup {[type |-> "application/pdf", pages |-> SubSeq(PageHeights, 1, n),
           width |-> 0, height |-> 0] : n \in 1..Len(PageHeights)}
    \cup {[type |-> "image/png", pages |-> <<>>, width |-> 250, height |-> 60],
          [type |-> "text/plain", pages |-> <<>>, width |-> 0, height |-> 0]}

\* The overlays the calls are given; the last page index is out of range for
\* every file.
OverlayInputs ==
    {[url |-> "sigA", x |-> 100, y |-> 50, page |-> pg] : pg \in 0..Len(PageHeights)}

\* The placeholders the calls are given (interface Placeholder).
FieldInputs ==
    {[type |-> "text", label |-> LabelOf("text"), x |-> 40, y |-> 30, page |-> pg,
      value |-> v] : v \in {"", "Ann"}, pg \in 0..Len(PageHeights)}
    \cup {[type |-> "signature", label |-> LabelOf("signature"), x |-> 40, y |-> 30,
           page |-> 0, value |-> ""]}

SeqsUpTo(S, n) == UNION {[1..m -> S] : m \in 0..n}

WithIds(list) ==
    [i \in DOMAIN list |->
        [id |-> i, type |-> list[i].type, label |-> list[i].label,
         x |-> list[i].x, y |-> list[i].y, page |-> list[i].page,
         value |-> list[i].value]]

Min(a, b) == IF a < b THEN a ELSE b
Max(a, b) == IF a > b THEN a ELSE b

NoCanvas == [width |-> 0, height |-> 0]
NoOutcome == [result |-> "none", cause |-> "none"]

\* One drawing call on the output document.
Op(kind, page, x, y, width, height, content) ==
    [kind |-> kind, page |-> page, x |-> x, y |-> y, width |-> width,
     height |-> height, content |-> content]

\* placeholders.filter(p => p.type === "text" && p.value)
TextFields(phs) == SelectSeq(phs, LAMBDA p : p.type = "text" /\ p.value # "")

\* PdfSignatureOp with the image's height left out of the flip.
PdfSignatureOp_noHeight(file, signature) ==
    Op("image", signature.page, signature.x,
       file.pages[signature.page + 1] - signature.y,
       SignatureWidth, SignatureHeight, signature.url)

\* The PDF signature loop's body after the embed: page.drawImage.
PdfSignatureOp(file, signature) ==
    Op("image", signature.page, signature.x,
       file.pages[signature.page + 1] - signature.y - SignatureHeight,
       SignatureWidth, SignatureHeight, signature.url)

\* PdfTextOp with the y of the live view, not flipped.
PdfTextOp_unflipped(file, placeholder) ==
    Op("text", placeholder.page, placeholder.x, placeholder.y, 0, TextSize,
       IF placeholder.value # "" THEN placeholder.value ELSE placeholder.label)

\* The PDF text loop's body: page.drawText.
PdfTextOp(file, placeholder) ==
    Op("text", placeholder.page, placeholder.x,
       file.pages[placeholder.page + 1] - placeholder.y - TextOffset,
       0, TextSize,
       IF placeholder.value # "" THEN placeholder.value ELSE placeholder.label)

\* PdfTextLoop leaving the loop (break) at a placeholder on a page the
\* document has not.
RECURSIVE PdfTextLoop_breaks(_, _)
PdfTextLoop_breaks(file, list) ==
    IF list = <<>> THEN <<>>
    ELSE IF Head(list).page >= Len(file.pages)
         THEN <<>>
         ELSE <<PdfTextOp(file, Head(list))>> \o PdfTextLoop_breaks(file, Tail(list))

\* The PDF text loop: a placeholder on a page the document has not is passed
\* over (continue).
RECURSIVE PdfTextLoop(_, _)
PdfTextLoop(file, list) ==
    IF list = <<>> THEN <<>>
    ELSE IF Head(list).page >= Len(file.pages)
         THEN PdfTextLoop(file, Tail(list))
         ELSE <<PdfTextOp(file, Head(list))>> \o PdfTextLoop(file, Tail(list))

\* CanvasSignatureOp drawing at the stored position, without the clamp.
CanvasSignatureOp_unclamped(cv, signature) ==
    Op("image", 0, signature.x, signature.y,
       SignatureWidth, SignatureHeight, signature.url)

\* The canvas signature loop's body after the image has loaded.
CanvasSignatureOp(cv, signature) ==
    Op("image", 0,
       Min(Max(signature.x, 0), cv.width - SignatureWidth),
       Min(Max(signature.y, 0), cv.height - SignatureHeight),
       SignatureWidth, SignatureHeight, signature.url)

\* The canvas text loop's body: the box (fillRect) and the text in it
\* (fillText at x + 5, y + 17).
CanvasTextOp(cv, placeholder) ==
    Op("text", 0,
       Min(Max(placeholder.x, 0), cv.width - TextClampWidth),
       Min(Max(placeholder.y, 0), cv.height - TextClampHeight),
       TextBoxWidth, TextBoxHeight, placeholder.value)

CanvasTextLoop(cv, list) == [i \in DOMAIN list |-> CanvasTextOp(cv, list[i])]

\* PdfSignatureStep reading the page's overlay store at the loop's index, not
\* the element of the array the call was given.
PdfSignatureStep_live(file, signature, ops) ==
    LET live == IF k \in DOMAIN signatures THEN signatures[k] ELSE signature
    IN  IF live.page >= Len(file.pages)
        THEN [thrown |-> TRUE, drawn |-> ops]
        ELSE [thrown |-> FALSE, drawn |-> Append(ops, PdfSignatureOp(file, live))]

\* PdfSignatureStep passing over a signature on a page the document has not,
\* as the text loop does.
PdfSignatureStep_skips(file, signature, ops) ==
    IF signature.page >= Len(file.pages)
    THEN [thrown |-> FALSE, drawn |-> ops]
    ELSE [thrown |-> FALSE, drawn |-> Append(ops, PdfSignatureOp(file, signature))]

\* The PDF signature loop's body after the embed: the page check (throw new
\* Error("Invalid page number")) and the drawing. ops: what is drawn so far.
PdfSignatureStep(file, signature, ops) ==
    IF signature.page >= Len(file.pages)
    THEN [thrown |-> TRUE, drawn |-> ops]
    ELSE [thrown |-> FALSE, drawn |-> Append(ops, PdfSignatureOp(file, signature))]

finalizeFrame == UNCHANGED <<pageVars, restVars>>

\* Fail without the finally block.
Fail_noFinally(cause) ==
    /\ outcome' = [result |-> "error", cause |-> cause]
    /\ UNCHANGED <<isProcessing, signedPdfUrl>>
    /\ pc' = "finished"

\* catch (error) { toast.error } finally { setIsProcessing(false) }
Fail(cause) ==
    /\ outcome' = [result |-> "error", cause |-> cause]
    /\ isProcessing' = FALSE
    /\ UNCHANGED signedPdfUrl
    /\ pc' = "finished"

\* Succeed without the finally block.
Succeed_noFinally ==
    /\ signedPdfUrl' = runs
    /\ outcome' = [result |-> "success", cause |-> "none"]
    /\ UNCHANGED isProcessing
    /\ pc' = "finished"

\* setSignedPdfUrl(url); toast.success; finally { setIsProcessing(false) }
Succeed ==
    /\ signedPdfUrl' = runs
    /\ outcome' = [result |-> "success", cause |-> "none"]
    /\ isProcessing' = FALSE
    /\ pc' = "finished"

\* The guard of handleFinalizeDocument.
Rejects(file, sigs, phs) == file = NoFile \/ (Len(sigs) = 0 /\ Len(phs) = 0)

Background(file) ==
    Op("background", 0, 0, 0, CanvasWidth, CanvasHeight, file.type)

\* handleFinalizeDocument(file, signatures, placeholders), up to its first
\* await. ctx: whether canvas.getContext('2d') gives a context. The call is
\* made from a click: its state updates are rendered before the next event.
handleFinalizeDocument(file, sigs, phs, ctx) ==
    /\ IF Rejects(file, sigs, phs)
       THEN /\ outcome' = [result |-> "rejected", cause |-> "none"]
            /\ UNCHANGED <<isProcessing, signedPdfUrl, pc, fFile, fSignatures,
                           fPlaceholders, k, drawn, canvas, priorUrl, runs>>
       ELSE /\ runs' = runs + 1
            /\ priorUrl' = signedPdfUrl
            /\ fFile' = file
            /\ fSignatures' = sigs
            /\ fPlaceholders' = phs
            /\ k' = 1
            /\ IF file.type = "application/pdf"
               THEN /\ isProcessing' = TRUE
                    /\ pc' = "load"
                    /\ drawn' = <<>>
                    /\ canvas' = NoCanvas
                    /\ UNCHANGED <<signedPdfUrl, outcome>>
               ELSE /\ canvas' = [width |-> CanvasWidth, height |-> CanvasHeight]
                    /\ IF ~ctx
                       THEN /\ Fail("context")
                            /\ drawn' = <<>>
                       ELSE /\ isProcessing' = TRUE
                            /\ UNCHANGED <<signedPdfUrl, outcome>>
                            /\ IF file.type = "image/png"
                               THEN /\ pc' = "imageLoad"
                                    /\ drawn' = <<>>
                               ELSE IF sigs # <<>>
                               THEN /\ pc' = "signatureLoad"
                                    /\ drawn' = <<Background(file)>>
                               ELSE /\ pc' = "encode"
                                    /\ drawn' = <<Background(file)>>
                                         \o CanvasTextLoop(canvas', TextFields(phs))
    /\ renderedProcessing' = isProcessing'
    /\ finalizeFrame

\* await file.arrayBuffer(); await PDFDocument.load(arrayBuffer) settle.
PdfLoaded(ok) ==
    /\ pc = "load"
    /\ IF ~ok
       THEN /\ Fail("environment")
            /\ UNCHANGED drawn
       ELSE /\ IF fSignatures # <<>>
               THEN /\ pc' = "embed"
                    /\ UNCHANGED drawn
               ELSE /\ pc' = "save"
                    /\ drawn' = PdfTextLoop(fFile, TextFields(fPlaceholders))
            /\ UNCHANGED <<isProcessing, signedPdfUrl, outcome>>
    /\ UNCHANGED <<fFile, fSignatures, fPlaceholders, k, canvas, priorUrl, runs,
                   renderedProcessing>>
    /\ finalizeFrame

\* await pdfDoc.embedPng(signatureBytes) settles for signature k; the rest of
\* the loop body; after the last signature, the text loop and pdfDoc.save().
PdfEmbedded(ok) ==
    LET step == PdfSignatureStep(fFile, fSignatures[k], drawn)
    IN  /\ pc = "embed"
        /\ IF ~ok
           THEN /\ Fail("environment")
                /\ UNCHANGED <<k, drawn>>
           ELSE IF step.thrown
           THEN /\ Fail("page")
                /\ UNCHANGED k
                /\ drawn' = step.drawn
           ELSE /\ IF k < Len(fSignatures)
                   THEN /\ k' = k + 1
                        /\ pc' = "embed"
                        /\ drawn' = step.drawn
                   ELSE /\ k' = k
                        /\ pc' = "save"
                        /\ drawn' = step.drawn
                                    \o PdfTextLoop(fFile, TextFields(fPlaceholders))
                /\ UNCHANGED <<isProcessing, signedPdfUrl, outcome>>
        /\ UNCHANGED <<fFile, fSignatures, fPlaceholders, canvas, priorUrl, runs,
                       renderedProcessing>>
        /\ finalizeFrame

\* await pdfDoc.save() settles.
PdfSaved(ok) ==
    /\ pc = "save"
    /\ IF ok THEN Succeed ELSE Fail("environment")
    /\ UNCHANGED <<fFile, fSignatures, fPlaceholders, k, drawn, canvas, priorUrl, runs,
                   renderedProcessing>>
    /\ finalizeFrame

\* The document image's onload / onerror.
ImageLoaded(ok) ==
    /\ pc = "imageLoad"
    /\ IF ~ok
       THEN /\ Fail("environment")
            /\ UNCHANGED <<drawn, canvas>>
       ELSE /\ canvas' = [width |-> fFile.width, height |-> fFile.height]
            /\ IF fSignatures # <<>>
               THEN /\ pc' = "signatureLoad"
                    /\ drawn' = <<Op("document", 0, 0, 0, fFile.width, fFile.height,
                                     fFile.type)>>
               ELSE /\ pc' = "encode"
                    /\ drawn' = <<Op("document", 0, 0, 0, fFile.width, fFile.height,
                                     fFile.type)>>
                                \o CanvasTextLoop(canvas', TextFields(fPlaceholders))
            /\ UNCHANGED <<isProcessing, signedPdfUrl, outcome>>
    /\ UNCHANGED <<fFile, fSignatures, fPlaceholders, k, priorUrl, runs,
                   renderedProcessing>>
    /\ finalizeFrame

\* The onload / onerror of signature k's image; the rest of the loop body;
\* after the last signature, the text loop, toDataURL and fetch.
SignatureLoaded(ok) ==
    /\ pc = "signatureLoad"
    /\ IF ~ok
       THEN /\ Fail("environment")
            /\ UNCHANGED <<k, drawn>>
       ELSE /\ IF k < Len(fSignatures)
               THEN /\ k' = k + 1
                    /\ pc' = "signatureLoad"
                    /\ drawn' = Append(drawn, CanvasSignatureOp(canvas, fSignatures[k]))
               ELSE /\ k' = k
                    /\ pc' = "encode"
                    /\ drawn' = Append(drawn, CanvasSignatureOp(canvas, fSignatures[k]))
                                \o CanvasTextLoop(canvas, TextFields(fPlaceholders))
            /\ UNCHANGED <<isProcessing, signedPdfUrl, outcome>>
    /\ UNCHANGED <<fFile, fSignatures, fPlaceholders, canvas, priorUrl, runs,
                   renderedProcessing>>
    /\ finalizeFrame

\* await (await fetch(dataUrl)).blob() settles.
Encoded(ok) ==
    /\ pc = "encode"
    /\ IF ok THEN Succeed ELSE Fail("environment")
    /\ UNCHANGED <<fFile, fSignatures, fPlaceholders, k, drawn, canvas, priorUrl, runs,
                   renderedProcessing>>
    /\ finalizeFrame

\* The call has returned: its locals are gone, and the render that follows
\* the finally block's setIsProcessing(false) is committed.
Return ==
    /\ pc = "finished"
    /\ pc' = "idle"
    /\ fFile' = NoFile
    /\ fSignatures' = <<>>
    /\ fPlaceholders' = <<>>
    /\ k' = 0
    /\ drawn' = <<>>
    /\ canvas' = NoCanvas
    /\ renderedProcessing' = isProcessing
    /\ UNCHANGED <<isProcessing, signedPdfUrl, outcome, priorUrl, runs>>
    /\ finalizeFrame

OverlayLists == SeqsUpTo(OverlayInputs, MaxOverlays)
FieldLists == {WithIds(list) : list \in SeqsUpTo(FieldInputs, MaxFields)}

\* The Finalize button's onClick. One call runs at a time: the button is
\* disabled while isProcessing.
onFinalizeDocument ==
    /\ pc = "idle"
    /\ runs < MaxRuns
    /\ \E file \in Files, sigs \in OverlayLists, phs \in FieldLists, ctx \in BOOLEAN :
          handleFinalizeDocument(file, sigs, phs, ctx)

FinalizeInit ==
    /\ isProcessing = FALSE
    /\ signedPdfUrl = 0
    /\ pc = "idle"
    /\ fFile = NoFile
    /\ fSignatures = <<>>
    /\ fPlaceholders = <<>>
    /\ k = 0
    /\ drawn = <<>>
    /\ canvas = NoCanvas
    /\ outcome = NoOutcome
    /\ priorUrl = 0
    /\ runs = 0
    /\ renderedProcessing = FALSE

---------------------------------------------------------------------------
(* DocumentViewer: zoom, drag gestures and placement *)

MaxIds == 2              \* placeholders rendered on the page
MaxIndex == 2            \* overlays rendered on the page
NoId == 0
NoIndex == -1
MountScale == 10         \* useState(1.0)
ZoomStep == 2
MaxScale == 20
MinScale == 6

\* Pointer offsets from the content's bounding rectangle
\* (e.clientX - rect.left, e.clientY - rect.top).
PointerXS == {3, 120}
PointerYS == {60}

NoPointer == [event |-> "none", x |-> 0, y |-> 0, scale |-> MountScale]

\* Coordinates are fractions n / d, computed exactly.
Frac(n, d) == [n |-> n, d |-> d]
FracEq(a, b) == a.n * b.d = b.n * a.d

\* offset / scale
toDocumentSpace(offset, s) == Frac(offset * 10, s)

\* left: `${x * scale}px`
toScreenSpace(x, s) == Frac(x.n * s, x.d * 10)

Call(fn, owner, x, y, page) ==
    [fn |-> fn, owner |-> owner, x |-> x, y |-> y, page |-> page]

\* prev + 0.2 and prev - 0.2 as IEEE 754 doubles round them. A scale is the
\* pair of the decimal it is nearest to (in tenths) and its distance from the
\* double nearest that decimal, in units in the last place: 1.4 + 0.2 is
\* 1.5999999999999999, one unit below the double 1.6, and 0.8 - 0.2 is
\* 0.6000000000000001. Each row: <<tenths, units, units of the sum, units of
\* the difference>>, for every scale the two handlers reach from 1.0.
Rounding ==
    {<<6, 0, 0, -1>>, <<6, 1, 0, 1>>, <<6, 3, 2, 5>>, <<8, 0, 0, 1>>,
     <<8, 2, 1, 3>>, <<10, 0, 0, 0>>, <<10, 1, 1, 2>>, <<12, 0, 0, 0>>,
     <<12, 1, 1, 1>>, <<14, 0, -1, 0>>, <<14, 1, 0, 1>>, <<16, -1, -1, 0>>,
     <<16, 0, 0, 1>>, <<18, -1, -1, -1>>, <<18, 0, 0, 0>>, <<20, -1, -1, -1>>,
     <<20, 0, 0, 0>>}

Rounded(tenths, units) ==
    IF \E row \in Rounding : row[1] = tenths /\ row[2] = units
    THEN CHOOSE row \in Rounding : row[1] = tenths /\ row[2] = units
    ELSE <<tenths, units, units, units>>

Plus(tenths, units) == <<tenths + ZoomStep, Rounded(tenths, units)[3]>>
Minus(tenths, units) == <<tenths - ZoomStep, Rounded(tenths, units)[4]>>

viewerFrame == UNCHANGED <<pageVars, finalizeVars, dialogVars, storageVars>>

\* Math.min(prev + 0.2, 2.0)
handleZoomIn ==
    LET sum == Plus(scale, drift)
        over == sum[1] > MaxScale \/ (sum[1] = MaxScale /\ sum[2] > 0)
    IN  /\ scale' = IF over THEN MaxScale ELSE sum[1]
        /\ drift' = IF over THEN 0 ELSE sum[2]
        /\ pointer' = NoPointer
        /\ calls' = <<>>
        /\ UNCHANGED <<isDraggingPlaceholder, isDraggingSignature,
                       draggingSignatureIndex, draggedPlaceholderId>>
        /\ viewerFrame

\* handleZoomOut with a floor of 0: Math.max(prev - 0.2, 0).
handleZoomOut_noFloor ==
    LET difference == Minus(scale, drift)
        under == difference[1] <= 0
    IN  /\ scale' = IF under THEN 0 ELSE difference[1]
        /\ drift' = IF under THEN 0 ELSE difference[2]
        /\ pointer' = NoPointer
        /\ calls' = <<>>
        /\ UNCHANGED <<isDraggingPlaceholder, isDraggingSignature,
                       draggingSignatureIndex, draggedPlaceholderId>>
        /\ viewerFrame

\* Math.max(prev - 0.2, 0.6)
handleZoomOut ==
    LET difference == Minus(scale, drift)
        under == difference[1] < MinScale \/ (difference[1] = MinScale /\ difference[2] < 0)
    IN  /\ scale' = IF under THEN MinScale ELSE difference[1]
        /\ drift' = IF under THEN 0 ELSE difference[2]
        /\ pointer' = NoPointer
        /\ calls' = <<>>
        /\ UNCHANGED <<isDraggingPlaceholder, isDraggingSignature,
                       draggingSignatureIndex, draggedPlaceholderId>>
        /\ viewerFrame

\* usePlaceholderManagement.handlePlaceholderDragStart
handlePlaceholderDragStart(placeholderId) ==
    draggedPlaceholderId' = placeholderId

\* onButton: the target is inside a button of the placeholder.
handlePlaceholderMouseDown(placeholderId, onButton) ==
    /\ IF onButton
       THEN UNCHANGED <<isDraggingPlaceholder, draggedPlaceholderId>>
       ELSE /\ isDraggingPlaceholder' = TRUE
            /\ handlePlaceholderDragStart(placeholderId)
    /\ pointer' = NoPointer
    /\ calls' = <<>>
    /\ UNCHANGED <<scale, drift, isDraggingSignature, draggingSignatureIndex>>
    /\ viewerFrame

handleSignatureMouseDown(signatureIndex, onButton) ==
    /\ IF onButton
       THEN UNCHANGED <<isDraggingSignature, draggingSignatureIndex>>
       ELSE /\ isDraggingSignature' = TRUE
            /\ draggingSignatureIndex' = signatureIndex
    /\ pointer' = NoPointer
    /\ calls' = <<>>
    /\ UNCHANGED <<scale, drift, isDraggingPlaceholder, draggedPlaceholderId>>
    /\ viewerFrame

handleMouseMove(clientX, clientY) ==
    LET x == toDocumentSpace(clientX, scale)
        y == toDocumentSpace(clientY, scale)
        placeholderCalls ==
            IF isDraggingPlaceholder /\ draggedPlaceholderId # NoId
            THEN <<Call("onPlaceholderMove", draggedPlaceholderId, x, y, pageNumber - 1)>>
            ELSE <<>>
        signatureCalls ==
            IF isDraggingSignature /\ draggingSignatureIndex # NoIndex
            THEN <<Call("onSignatureMove", draggingSignatureIndex, x, y, pageNumber - 1)>>
            ELSE <<>>
    IN  /\ calls' = placeholderCalls \o signatureCalls
        /\ pointer' = [event |-> "move", x |-> clientX, y |-> clientY, scale |-> scale]
        /\ UNCHANGED <<scale, drift, isDraggingPlaceholder, isDraggingSignature,
                       draggingSignatureIndex, draggedPlaceholderId>>
        /\ viewerFrame

\* The content's onMouseUp and the window's mouseup listener.
handleMouseUp ==
    /\ isDraggingPlaceholder' = FALSE
    /\ isDraggingSignature' = FALSE
    /\ draggingSignatureIndex' = NoIndex
    /\ pointer' = NoPointer
    /\ calls' = <<>>
    /\ UNCHANGED <<scale, drift, draggedPlaceholderId>>
    /\ viewerFrame

\* canSign: !disableClickToSign && signingMode && signatureImage
handlePageClick(clientX, clientY, canSign) ==
    /\ IF isDraggingSignature \/ isDraggingPlaceholder \/ ~canSign
       THEN calls' = <<>>
       ELSE calls' = <<Call("onApplySignature", NoId,
                            toDocumentSpace(clientX, scale),
                            toDocumentSpace(clientY, scale), pageNumber - 1)>>
    /\ pointer' = [event |-> "click", x |-> clientX, y |-> clientY, scale |-> scale]
    /\ UNCHANGED <<scale, drift, isDraggingPlaceholder, isDraggingSignature,
                   draggingSignatureIndex, draggedPlaceholderId>>
    /\ viewerFrame

\* useDrop's drop. closureScale, closurePage: scale and pageNumber as the drop
\* callback sees them, of the last render or of the first.
useDrop(clientX, clientY, closureScale, closurePage) ==
    /\ calls' = <<Call("addPlaceholder", NoId,
                       toDocumentSpace(clientX, closureScale),
                       toDocumentSpace(clientY, closureScale), closurePage - 1)>>
    /\ pointer' = [event |-> "drop", x |-> clientX, y |-> clientY, scale |-> scale]
    /\ UNCHANGED <<scale, drift, isDraggingPlaceholder, isDraggingSignature,
                   draggingSignatureIndex, draggedPlaceholderId>>
    /\ viewerFrame

ViewerInit ==
    /\ scale = MountScale
    /\ drift = 0
    /\ isDraggingPlaceholder = FALSE
    /\ isDraggingSignature = FALSE
    /\ draggingSignatureIndex = NoIndex
    /\ draggedPlaceholderId = NoId
    /\ pointer = NoPointer
    /\ calls = <<>>

---------------------------------------------------------------------------
(* RecipientOrderDialog *)

MaxRecipients == 3
MaxOrder == 3
MaxTime == 3

\* Text is a sequence of characters.
NameTexts == {<<>>, <<" ">>, <<" ", "A">>}
EmailTexts == {<<>>, <<" ">>, <<"a">>, <<"a", "@">>}
OrderTexts == {<<>>, <<"0">>, <<"-", "3">>, <<"2", ".", "5">>}

Digits == <<"0", "1", "2", "3", "4", "5", "6", "7", "8", "9">>
\* A number or NaN.
NaN == [nan |-> TRUE, value |-> 0]
Number(n) == [nan |-> FALSE, value |-> n]

IsDigit(c) == \E d \in DOMAIN Digits : Digits[d] = c
DigitValue(c) == (CHOOSE d \in DOMAIN Digits : Digits[d] = c) - 1

RECURSIVE TrimStart(_)
TrimStart(text) ==
    IF text # <<>> /\ Head(text) = " " THEN TrimStart(Tail(text)) ELSE text

RECURSIVE TrimEnd(_)
TrimEnd(text) ==
    IF text # <<>> /\ text[Len(text)] = " "
    THEN TrimEnd(SubSeq(text, 1, Len(text) - 1))
    ELSE text

\* String.prototype.trim
Trim(text) == TrimEnd(TrimStart(text))

\* String.prototype.includes
Includes(text, c) == \E i \in DOMAIN text : text[i] = c

\* The digits text begins with, as a number; acc: the digits read so far.
RECURSIVE LeadingDigits(_, _)
LeadingDigits(text, acc) ==
    IF text # <<>> /\ IsDigit(Head(text))
    THEN LeadingDigits(Tail(text), acc * 10 + DigitValue(Head(text)))
    ELSE acc

\* parseInt(text)
ParseInt(text) ==
    LET trimmed == TrimStart(text)
        negative == trimmed # <<>> /\ Head(trimmed) = "-"
        digits == IF negative THEN Tail(trimmed) ELSE trimmed
    IN  IF digits = <<>> \/ ~IsDigit(Head(digits))
        THEN NaN
        ELSE IF negative THEN Number(0 - LeadingDigits(digits, 0))
             ELSE Number(LeadingDigits(digits, 0))

\* parseInt(e.target.value) || 1
OrderOfInput(text) ==
    IF ParseInt(text).nan THEN 1
    ELSE IF ParseInt(text).value = 0 THEN 1
    ELSE ParseInt(text).value

MaxOf(S) == CHOOSE m \in S : \A n \in S : n <= m

Orders(list) == {list[i].order : i \in DOMAIN list}

getNextOrderNumber(list) ==
    IF Len(list) = 0 THEN 1 ELSE MaxOf(Orders(list)) + 1

Filter(list, Keep(_)) ==
    LET RECURSIVE F(_)
        F(rest) == IF rest = <<>> THEN <<>>
                   ELSE IF Keep(Head(rest)) THEN <<Head(rest)>> \o F(Tail(rest))
                   ELSE F(Tail(rest))
    IN  F(list)

WithOrder(r, order) ==
    [id |-> r.id, name |-> r.name, email |-> r.email, order |-> order,
     status |-> r.status]

\* addRecipient giving the next order number in either mode.
addRecipient_nextOrder(list, type, name, email, id) ==
    IF Trim(name) = <<>> \/ Trim(email) = <<>>
    THEN list
    ELSE IF ~Includes(email, "@")
    THEN list
    ELSE Append(list, [id |-> id, name |-> Trim(name), email |-> Trim(email),
                       order |-> getNextOrderNumber(list),
                       status |-> "pending"])

\* addRecipient accepting an email without "@".
addRecipient_anyEmail(list, type, name, email, id) ==
    IF Trim(name) = <<>> \/ Trim(email) = <<>>
    THEN list
    ELSE Append(list, [id |-> id, name |-> Trim(name), email |-> Trim(email),
                       order |-> IF type = "without-order" THEN 1
                                 ELSE getNextOrderNumber(list),
                       status |-> "pending"])

\* addRecipient: the list it sets, given the two fields and Date.now().
addRecipient(list, type, name, email, id) ==
    IF Trim(name) = <<>> \/ Trim(email) = <<>>
    THEN list
    ELSE IF ~Includes(email, "@")
    THEN list
    ELSE Append(list, [id |-> id, name |-> Trim(name), email |-> Trim(email),
                       order |-> IF type = "without-order" THEN 1
                                 ELSE getNextOrderNumber(list),
                       status |-> "pending"])

removeRecipient(list, id) == Filter(list, LAMBDA r : r.id # id)

\* updateRecipientOrder without the test of newOrder.
updateRecipientOrder_unchecked(list, id, newOrder) ==
    [i \in DOMAIN list |->
        IF list[i].id = id THEN WithOrder(list[i], newOrder) ELSE list[i]]

updateRecipientOrder(list, id, newOrder) ==
    IF newOrder < 1
    THEN list
    ELSE [i \in DOMAIN list |->
             IF list[i].id = id THEN WithOrder(list[i], newOrder) ELSE list[i]]

\* The order moveRecipient asks for (recipients.find: the first with the id).
MoveTarget(list, id, direction) ==
    LET first == CHOOSE i \in DOMAIN list :
                    /\ list[i].id = id
                    /\ \A j \in 1..(i - 1) : list[j].id # id
    IN  IF direction = "up" THEN list[first].order - 1 ELSE list[first].order + 1

moveRecipient(list, type, id, direction) ==
    IF type = "without-order"
    THEN list
    ELSE IF ~\E i \in DOMAIN list : list[i].id = id
    THEN list
    ELSE IF MoveTarget(list, id, direction) < 1
    THEN list
    ELSE updateRecipientOrder(list, id, MoveTarget(list, id, direction))

\* handleOrderTypeChange leaving the orders as they are when switching to
\* with-order.
handleOrderTypeChange_keepsOrders(list, newOrderType) ==
    [i \in DOMAIN list |->
        WithOrder(list[i], IF newOrderType = "without-order" THEN 1
                           ELSE list[i].order)]

handleOrderTypeChange(list, newOrderType) ==
    [i \in DOMAIN list |->
        WithOrder(list[i], IF newOrderType = "without-order" THEN 1 ELSE i)]

\* groupedRecipients with each recipient replacing its group.
groupedRecipients_overwrite(list) ==
    [order \in Orders(list) |->
        LET last == CHOOSE i \in DOMAIN list :
                       /\ list[i].order = order
                       /\ \A j \in DOMAIN list : list[j].order = order => j <= i
        IN  <<list[last]>>]

\* groupedRecipients: the reduce into a record keyed by order.
groupedRecipients(list) ==
    [order \in Orders(list) |-> Filter(list, LAMBDA r : r.order = order)]

\* Object.keys(groupedRecipients).map(Number).sort((a, b) => a - b)
RECURSIVE SortAscending(_)
SortAscending(S) ==
    IF S = {} THEN <<>>
    ELSE LET least == CHOOSE m \in S : \A n \in S : m <= n
         IN  <<least>> \o SortAscending(S \ {least})

sortedOrders(list) == SortAscending(DOMAIN groupedRecipients(list))

\* new Set(recipients.map(r => r.order)) of handleSave
uniqueOrders(list) == {list[i].order : i \in DOMAIN list}

NoDialogOp ==
    [op |-> "none", before |-> <<>>, type |-> "with-order", id |-> 0,
     name |-> <<>>, email |-> <<>>, order |-> 0]

DialogOp(op, id, order, name, email) ==
    [op |-> op, before |-> recipients, type |-> orderType, id |-> id,
     name |-> name, email |-> email, order |-> order]

dialogFrame == UNCHANGED <<pageVars, finalizeVars, viewerVars, storageVars>>

\* Time passes.
Tick ==
    /\ now < MaxTime
    /\ now' = now + 1
    /\ UNCHANGED <<recipients, orderType, dialogOp>>
    /\ dialogFrame

\* The Add button, with newRecipientName and newRecipientEmail as typed.
AddClick(name, email) ==
    /\ Len(recipients) < MaxRecipients
    /\ getNextOrderNumber(recipients) <= MaxOrder
    /\ recipients' = addRecipient(recipients, orderType, name, email, now)
    /\ dialogOp' = DialogOp("addRecipient", now, 0, name, email)
    /\ UNCHANGED <<orderType, now>>
    /\ dialogFrame

\* A recipient's X button.
RemoveClick(id) ==
    /\ \E i \in DOMAIN recipients : recipients[i].id = id
    /\ recipients' = removeRecipient(recipients, id)
    /\ dialogOp' = DialogOp("removeRecipient", id, 0, <<>>, <<>>)
    /\ UNCHANGED <<orderType, now>>
    /\ dialogFrame

\* A recipient's order field, shown in with-order mode.
OrderInput(id, text) ==
    /\ orderType = "with-order"
    /\ \E i \in DOMAIN recipients : recipients[i].id = id
    /\ OrderOfInput(text) <= MaxOrder
    /\ recipients' = updateRecipientOrder(recipients, id, OrderOfInput(text))
    /\ dialogOp' = DialogOp("updateRecipientOrder", id, OrderOfInput(text), <<>>, <<>>)
    /\ UNCHANGED <<orderType, now>>
    /\ dialogFrame

\* A recipient's arrow buttons, shown in with-order mode.
MoveClick(id, direction) ==
    /\ orderType = "with-order"
    /\ \E i \in DOMAIN recipients : recipients[i].id = id
    /\ MoveTarget(recipients, id, direction) <= MaxOrder
    /\ recipients' = moveRecipient(recipients, orderType, id, direction)
    /\ dialogOp' = DialogOp("moveRecipient", id,
                            MoveTarget(recipients, id, direction), <<>>, <<>>)
    /\ UNCHANGED <<orderType, now>>
    /\ dialogFrame

\* The radio group's onValueChange.
OrderTypeChange(value) ==
    /\ orderType' = value
    /\ recipients' = handleOrderTypeChange(recipients, value)
    /\ dialogOp' = DialogOp("handleOrderTypeChange", 0, 0, <<>>, <<>>)
    /\ UNCHANGED now
    /\ dialogFrame

DialogInit ==
    /\ recipients = <<>>
    /\ orderType = "with-order"
    /\ now = 1
    /\ dialogOp = NoDialogOp

---------------------------------------------------------------------------
(* localStorage and usePlaceholderManagement.savePlaceholders *)

StorageQuota == 5        \* what localStorage holds before setItem throws

NoDocument == ""
Documents == {"docA", "docB"}

\* A key is its prefix and the rest of it.
Key(prefix, rest) == <<prefix, rest>>
FileKey(documentId) == Key("file_", documentId)
RecordKey(documentId) == Key("", documentId)
SignatureKey == Key("", "saved_signature")
Keys ==
    {FileKey(d) : d \in Documents} \cup {RecordKey(d) : d \in Documents}
    \cup {SignatureKey}

\* String.prototype.startsWith
StartsWith(key, prefix) == key[1] = prefix

\* The lengths of the values written: a document's bytes, the saved
\* signature, and JSON.stringify(saveData) for few and for many placeholders.
FileLength == {2}
SignatureLength == {1}
RecordLengths == {1, 3, 4}

RECURSIVE Used(_, _)
Used(store, keys) ==
    IF keys = {} THEN 0
    ELSE LET key == CHOOSE key \in keys : TRUE
         IN  store[key] + Used(store, keys \ {key})

\* localStorage.setItem: it throws when the quota would be exceeded, and then
\* leaves the item as it was.
setItem(store, key, length) ==
    IF Used(store, Keys) - store[key] + length <= StorageQuota
    THEN [thrown |-> FALSE, store |-> [store EXCEPT ![key] = length]]
    ELSE [thrown |-> TRUE, store |-> store]

\* keysToRemove collecting the current document's file as well.
keysToRemove_everyFile(store, documentId) ==
    {key \in Keys : store[key] > 0 /\ StartsWith(key, "file_")}

\* The loop over localStorage.key(i) that fills keysToRemove.
keysToRemove(store, documentId) ==
    {key \in Keys : /\ store[key] > 0
                    /\ StartsWith(key, "file_")
                    /\ key # FileKey(documentId)}

\* keysToRemove.forEach(key => localStorage.removeItem(key))
removeItems(store, keys) ==
    [key \in Keys |-> IF key \in keys THEN 0 ELSE store[key]]

\* savePlaceholders(documentId, file), dataString of the given length: the
\* storage it leaves, the toast it shows and the calls of setItem it made.
savePlaceholders(store, documentId, length) ==
    IF documentId = NoDocument
    THEN [store |-> store, toast |-> "error", writes |-> 0, firstThrown |-> FALSE]
    ELSE LET first == setItem(store, RecordKey(documentId), length)
             cleaned == removeItems(store, keysToRemove(store, documentId))
             second == setItem(cleaned, RecordKey(documentId), length)
         IN  IF ~first.thrown
             THEN [store |-> first.store, toast |-> "success", writes |-> 1,
                   firstThrown |-> FALSE]
             ELSE IF ~second.thrown
             THEN [store |-> second.store, toast |-> "success", writes |-> 2,
                   firstThrown |-> TRUE]
             ELSE [store |-> cleaned, toast |-> "error", writes |-> 2,
                   firstThrown |-> TRUE]

\* A JavaScript object: its properties in insertion order, <<name, value>>.
Undefined == <<"undefined">>

Has(object, name) == \E i \in DOMAIN object : object[i][1] = name

Get(object, name) ==
    IF Has(object, name)
    THEN object[CHOOSE i \in DOMAIN object : object[i][1] = name][2]
    ELSE Undefined

\* object[name] = value
Put(object, name, value) ==
    IF Has(object, name)
    THEN [i \in DOMAIN object |->
            IF object[i][1] = name THEN <<name, value>> ELSE object[i]]
    ELSE Append(object, <<name, value>>)

\* JSON.stringify leaves out the properties whose value is undefined;
\* JSON.parse gives the object of the text.
stringify(object) == [json |-> SelectSeq(object, LAMBDA pair : pair[2] # Undefined)]
parse(text) == text.json

\* localStorage.getItem of a key without item is null; handleSaveRecipients
\* then starts from {}.
NoItem == <<>>

\* file?.name || documentId.substring(9, documentId.lastIndexOf('_'))
DocumentName(documentId) == <<"name", documentId>>

SavedAt == <<"toISOString">>

\* The saveData object savePlaceholders builds.
PlaceholderData(list, documentId) ==
    <<(<<"placeholders", <<"array", list>>>>),
      (<<"documentName", DocumentName(documentId)>>),
      (<<"savedAt", SavedAt>>)>>

\* handleSaveRecipients: the saveData object it writes, given what the
\* document's item parses to.
handleSaveRecipients(existingData, newRecipients) ==
    Put(Put(existingData, "recipients", <<"array", newRecipients>>),
        "savedAt", SavedAt)

\* The lists the dialog's Save hands over (it refuses an empty list).
RecipientLists ==
    {<<[id |-> 1, name |-> "A", email |-> "a@", order |-> 1, status |-> "pending"]>>,
     <<[id |-> 1, name |-> "A", email |-> "a@", order |-> 1, status |-> "pending"],
       [id |-> 2, name |-> "B", email |-> "b@", order |-> 2, status |-> "pending"]>>}

NoSave ==
    [op |-> "none", documentId |-> NoDocument, length |-> 0,
     before |-> [key \in Keys |-> 0], toast |-> "none", writes |-> 0,
     firstThrown |-> FALSE]

storageFrame == UNCHANGED <<pageVars, finalizeVars, viewerVars, dialogVars>>

\* Home: an uploaded document's bytes are stored under file_<documentId>.
handleFileUpload(documentId) ==
    /\ \E length \in FileLength :
          storage' = setItem(storage, FileKey(documentId), length).store
    /\ saveOp' = NoSave
    /\ UNCHANGED records
    /\ storageFrame

\* useSignatureManagement: localStorage.setItem('saved_signature', ...)
saveSignature ==
    /\ \E length \in SignatureLength :
          storage' = setItem(storage, SignatureKey, length).store
    /\ saveOp' = NoSave
    /\ UNCHANGED records
    /\ storageFrame

\* The Save Progress button: the page's savePlaceholders(documentId, file) of
\* the last render.
onSavePlaceholders(documentId, length) ==
    LET result == savePlaceholders(storage, documentId, length)
    IN  /\ storage' = result.store
        /\ records' = IF documentId # NoDocument /\ result.toast = "success"
                       THEN [records EXCEPT ![documentId] =
                               parse(stringify(PlaceholderData(rendered.placeholders,
                                                               documentId)))]
                       ELSE records
        /\ saveOp' = [op |-> "savePlaceholders", documentId |-> documentId,
                      length |-> length, before |-> storage,
                      toast |-> result.toast, writes |-> result.writes,
                      firstThrown |-> result.firstThrown]
        /\ storageFrame

\* DocumentControls.handleSaveRecipients(newRecipients), from the dialog's
\* onSave; length: that of the string it writes. An exception of setItem
\* leaves the handler and the item as they were.
onSaveRecipients(documentId, newRecipients, length) ==
    LET saveData == handleSaveRecipients(records[documentId], newRecipients)
        written == setItem(storage, RecordKey(documentId), length)
    IN  /\ documentId # NoDocument
        /\ storage' = written.store
        /\ records' = IF written.thrown THEN records
                       ELSE [records EXCEPT ![documentId] = parse(stringify(saveData))]
        /\ saveOp' = [NoSave EXCEPT !.op = "handleSaveRecipients",
                                    !.documentId = documentId]
        /\ storageFrame

StorageInit ==
    /\ storage = [key \in Keys |-> 0]
    /\ saveOp = NoSave
    /\ records = [documentId \in Documents |-> NoItem]

---------------------------------------------------------------------------
(* The signing page and the template hook *)

Init ==
    /\ signatureImage \in Images \cup {NoImage}   \* localStorage 'saved_signature'
    /\ mountSignatureImage = signatureImage
    /\ signatures = <<>>
    /\ placeholders = <<>>
    /\ pageNumber = 1
    /\ rendered = Env(signatureImage, <<>>, <<>>, 1)
    /\ nextId = 1
    /\ senderPlaceholders = <<>>
    /\ recipientPlaceholders = <<>>
    /\ lastOp = OtherOp
    /\ FinalizeInit
    /\ ViewerInit
    /\ DialogInit
    /\ StorageInit

Next ==
    \/ Render
    \/ \E img \in Images : handleSignatureCreate(img)
    \/ \E env \in {rendered, MountEnv}, type \in Types, category \in Categories,
          x \in XS, y \in YS : Drop(env, type, category, x, y)
    \/ \E id \in 1..MaxCreates, x \in XS, y \in YS : handlePlaceholderMove(id, x, y)
    \/ \E i \in 1..MaxSignatures, x \in XS, y \in YS : handleSignatureMove(i, x, y)
    \/ \E id \in 1..MaxCreates : handleDeletePlaceholder(id)
    \/ handlePrevPage
    \/ handleNextPage

Spec == Init /\ [][Next]_vars

\* The template hook on its own: it shares no state with the signing page.
NextTemplate ==
    \E type \in Types, x \in XS, y \in YS, page \in 0..(NumPages - 1),
       category \in {"sender", "recipient"}, image \in Images \cup {NoImage} :
       handleAddPlaceholder(type, x, y, page, category, image)

SpecTemplate == Init /\ [][NextTemplate]_vars

\* The finalization hook on its own, called with any file, overlays and
\* placeholders.
NextFinalize ==
    \/ onFinalizeDocument
    \/ \E ok \in BOOLEAN : PdfLoaded(ok)
    \/ \E ok \in BOOLEAN : PdfEmbedded(ok)
    \/ \E ok \in BOOLEAN : PdfSaved(ok)
    \/ \E ok \in BOOLEAN : ImageLoaded(ok)
    \/ \E ok \in BOOLEAN : SignatureLoaded(ok)
    \/ \E ok \in BOOLEAN : Encoded(ok)
    \/ Return

InitFinalize == Init /\ signatureImage = NoImage

SpecFinalize == InitFinalize /\ [][NextFinalize]_vars

\* The canvas path on its own: documents that are not PDFs, with overlays and
\* fields at the edges of the canvas and outside it.
SmallImage == [type |-> "image/png", pages |-> <<>>, width |-> 150, height |-> 40]
LargeImage == [type |-> "image/png", pages |-> <<>>, width |-> 250, height |-> 60]
CanvasFiles == {SmallImage, LargeImage} \cup {f \in Files : f.type = "text/plain"}

CanvasOverlayInputs ==
    {[url |-> "sigA", x |-> pos[1], y |-> pos[2], page |-> 0] :
        pos \in {<<-10, 50>>, <<100, 590>>, <<790, 50>>}}

CanvasFieldInputs ==
    {[type |-> "text", label |-> LabelOf("text"), x |-> f[1], y |-> f[2],
      page |-> 0, value |-> f[3]] :
        f \in {<<790, 30, "Ann">>, <<40, 590, "Ann">>, <<-10, 30, "Ann">>,
               <<40, 30, "">>}}

CanvasOverlayLists == SeqsUpTo(CanvasOverlayInputs, MaxOverlays)
CanvasFieldLists == {WithIds(list) : list \in SeqsUpTo(CanvasFieldInputs, MaxFields)}

onFinalizeCanvas ==
    /\ pc = "idle"
    /\ runs < MaxRuns
    /\ \E file \in CanvasFiles, sigs \in CanvasOverlayLists,
          phs \in CanvasFieldLists :
          handleFinalizeDocument(file, sigs, phs, TRUE)

NextCanvas ==
    \/ onFinalizeCanvas
    \/ \E ok \in BOOLEAN : ImageLoaded(ok)
    \/ \E ok \in BOOLEAN : SignatureLoaded(ok)
    \/ \E ok \in BOOLEAN : Encoded(ok)
    \/ Return

SpecCanvas == InitFinalize /\ [][NextCanvas]_vars

\* The Finalize button of DocumentControls, given the page's file, overlays
\* and placeholders as they are when it is clicked.
FinalizeShown(image, sigs, phs, url) ==
    /\ (image # NoImage /\ Len(sigs) > 0) \/ Len(phs) > 0
    /\ url = 0

\* The button without its disabled attribute.
FinalizeDisabled_never(processing, file) == FALSE

\* disabled={isProcessing || !file}
FinalizeDisabled(processing, file) == processing \/ file = NoFile

ControlFiles == {f \in Files : f = NoFile \/ Len(f.pages) <= 1}
ControlOverlayLists == SeqsUpTo({o \in OverlayInputs : o.page = 0}, MaxOverlays)
ControlFieldLists ==
    {WithIds(list) :
        list \in SeqsUpTo({f \in FieldInputs :
                              f.page = 0 /\ (f.type = "text" => f.value # "")},
                          MaxFields)}

\* A click on the Finalize button: it reaches onFinalizeDocument when the
\* button is rendered and not disabled.
FinalizeClick ==
    /\ runs < MaxRuns
    /\ \E file \in ControlFiles :
          /\ ~FinalizeDisabled(renderedProcessing, file)
          /\ \E image \in Images \cup {NoImage}, sigs \in ControlOverlayLists,
                phs \in ControlFieldLists, ctx \in BOOLEAN :
                /\ FinalizeShown(image, sigs, phs, signedPdfUrl)
                /\ handleFinalizeDocument(file, sigs, phs, ctx)

NextControls ==
    \/ FinalizeClick
    \/ \E ok \in BOOLEAN : PdfLoaded(ok)
    \/ \E ok \in BOOLEAN : PdfEmbedded(ok)
    \/ \E ok \in BOOLEAN : PdfSaved(ok)
    \/ \E ok \in BOOLEAN : ImageLoaded(ok)
    \/ \E ok \in BOOLEAN : SignatureLoaded(ok)
    \/ \E ok \in BOOLEAN : Encoded(ok)
    \/ Return

SpecControls == InitFinalize /\ [][NextControls]_vars

\* The same, with the scheduling the run relies on: each promise the call
\* awaits (arrayBuffer, PDFDocument.load, embedPng, save, an image's onload or
\* onerror, fetch and blob) settles, fulfilled or rejected, and the call then
\* returns. Nothing obliges the user to click.
Settles ==
    /\ WF_vars(\E ok \in BOOLEAN : PdfLoaded(ok))
    /\ WF_vars(\E ok \in BOOLEAN : PdfEmbedded(ok))
    /\ WF_vars(\E ok \in BOOLEAN : PdfSaved(ok))
    /\ WF_vars(\E ok \in BOOLEAN : ImageLoaded(ok))
    /\ WF_vars(\E ok \in BOOLEAN : SignatureLoaded(ok))
    /\ WF_vars(\E ok \in BOOLEAN : Encoded(ok))
    /\ WF_vars(Return)

SpecControlsFair == SpecControls /\ Settles

\* The viewer on its own: pointer events in any order the browser delivers
\* them (a second button pressed while the first is held gives a second
\* mousedown without a mouseup between them).
NextViewer ==
    \/ handleZoomIn
    \/ handleZoomOut
    \/ handlePrevPage
    \/ handleNextPage
    \/ \E id \in 1..MaxIds, onButton \in BOOLEAN :
          handlePlaceholderMouseDown(id, onButton)
    \/ \E index \in 0..(MaxIndex - 1), onButton \in BOOLEAN :
          handleSignatureMouseDown(index, onButton)
    \/ \E clientX \in PointerXS, clientY \in PointerYS :
          handleMouseMove(clientX, clientY)
    \/ handleMouseUp
    \/ \E clientX \in PointerXS, clientY \in PointerYS, canSign \in BOOLEAN :
          handlePageClick(clientX, clientY, canSign)
    \/ \E clientX \in PointerXS, clientY \in PointerYS, stale \in BOOLEAN :
          IF stale
          THEN useDrop(clientX, clientY, MountScale, 1)
          ELSE useDrop(clientX, clientY, scale, pageNumber)

SpecViewer == InitFinalize /\ [][NextViewer]_vars

\* The recipient dialog on its own, opened without initial recipients.
NextRecipients ==
    \/ Tick
    \/ \E name \in NameTexts, email \in EmailTexts : AddClick(name, email)
    \/ \E id \in 1..MaxTime : RemoveClick(id)
    \/ \E id \in 1..MaxTime, text \in OrderTexts : OrderInput(id, text)
    \/ \E id \in 1..MaxTime, direction \in {"up", "down"} : MoveClick(id, direction)
    \/ \E value \in {"with-order", "without-order"} : OrderTypeChange(value)

SpecRecipients == InitFinalize /\ [][NextRecipients]_vars

\* localStorage as the pages fill it, and the saving of placeholders.
NextSave ==
    \/ \E documentId \in Documents : handleFileUpload(documentId)
    \/ saveSignature
    \/ \E documentId \in Documents \cup {NoDocument}, length \in RecordLengths :
          onSavePlaceholders(documentId, length)

SpecSave == InitFinalize /\ [][NextSave]_vars

\* The record of the document the signing page shows (documentId is the
\* route's parameter), as the Save Progress button and the recipient dialog
\* write it, while placeholders are dropped on the page.
PageDocument == "docA"

NextRecord ==
    \/ Render
    \/ \E x \in XS : Drop(rendered, "text", "recipient", x, 0)
    \/ \E length \in RecordLengths : onSavePlaceholders(PageDocument, length)
    \/ \E newRecipients \in RecipientLists, length \in RecordLengths :
          onSaveRecipients(PageDocument, newRecipients, length)

SpecRecord == InitFinalize /\ [][NextRecord]_vars

\* The signing page with a finalization in flight: onFinalizeDocument hands
\* the file and the two lists of the last render to the hook, and the page's
\* handlers go on running between the awaits of the call. The handlers build
\* new arrays (functional updates, map, filter, spread); the objects
\* handleUpdatePlaceholders writes to are those of the list the viewer has
\* just built, never those of an array an earlier render handed out.
PageFile == [type |-> "application/pdf", pages |-> PageHeights,
             width |-> 0, height |-> 0]

onFinalizePage ==
    /\ pc = "idle"
    /\ runs < MaxRuns
    /\ ~Dirty
    /\ ~FinalizeDisabled(renderedProcessing, PageFile)
    /\ FinalizeShown(rendered.signatureImage, rendered.signatures,
                     rendered.placeholders, signedPdfUrl)
    /\ handleFinalizeDocument(PageFile, rendered.signatures, rendered.placeholders,
                              TRUE)

\* Once signedPdfUrl is set the page shows the finalized file: the sidebar is
\* not rendered and the viewer is given no overlays, so nothing is left to
\* drop, move or delete.
Editing ==
    /\ signedPdfUrl = 0
    /\ \/ \E type \in Types : Drop(rendered, type, "recipient", 0, 0)
       \/ \E id \in 1..MaxCreates, x \in XS : handlePlaceholderMove(id, x, 0)
       \/ \E i \in 1..MaxSignatures, x \in XS : handleSignatureMove(i, x, 0)
       \/ \E id \in 1..MaxCreates : handleDeletePlaceholder(id)

NextSnapshot ==
    \/ Render
    \/ Editing
    \/ onFinalizePage
    \/ \E ok \in BOOLEAN : PdfLoaded(ok)
    \/ \E ok \in BOOLEAN : PdfEmbedded(ok)
    \/ \E ok \in BOOLEAN : PdfSaved(ok)
    \/ Return

InitSnapshot == Init /\ signatureImage # NoImage

SpecSnapshot == InitSnapshot /\ [][NextSnapshot]_vars

---------------------------------------------------------------------------
(* Properties of the placeholder and overlay stores *)

\* The placeholder the last drop created, as the page's store holds it.
Created == placeholders[CHOOSE i \in DOMAIN placeholders : placeholders[i].id = lastOp.id]

JustCreated ==
    /\ lastOp.op = "addPlaceholder"
    /\ \E i \in DOMAIN placeholders : placeholders[i].id = lastOp.id

\* C1: adding an overlay at an (x, y, page) is idempotent: when
\* handleApplySignature has run for a triple at which the store held at most
\* one instance, the store holds exactly one instance at that triple, whether
\* or not the page was rendered since the instance was added.
C1_OverlayAddIdempotent ==
    (JustCreated /\ lastOp.applied /\ lastOp.countBefore <= 1)
        => CountAt(signatures, Created) = 1

\* C2: once a signature placeholder has gained a value (pre-filled when it
\* was created, or back-filled by handleUpdatePlaceholders), an overlay exists
\* at the placeholder's (x, y, page), and only one if the store held at most
\* one there before.
C2_ValueImpliesOverlay ==
    (JustCreated /\ Created.type = "signature" /\ Created.value # "")
        => /\ CountAt(signatures, Created) >= 1
           /\ lastOp.countBefore <= 1 => CountAt(signatures, Created) = 1

\* C3: deleting a signature placeholder removes every overlay on its page
\* within Tolerance of its position; deleting a text placeholder leaves the
\* overlay store as it was.
C3_CascadeDeletion ==
    lastOp.op = "delete"
        => IF lastOp.deleted.type = "signature"
           THEN \A i \in DOMAIN signatures :
                    ~WithinTolerance(signatures[i], lastOp.deleted)
           ELSE signatures = lastOp.before

\* C4: a newly created placeholder holds the known signature image as its
\* value exactly when it is a signature placeholder of the sender and a
\* signature image is known when it is created; any other new placeholder has
\* an empty value.
C4_AutoPopulation ==
    JustCreated
        => IF Created.type = "signature" /\ Created.category = "sender"
              /\ signatureImage # NoImage
           THEN Created.value = signatureImage
           ELSE Created.value = ""

---------------------------------------------------------------------------
(* Properties of finalization *)

IsPdf == fFile.type = "application/pdf"
PageCount == Len(fFile.pages)
Finished(result) == pc = "finished" /\ outcome.result = result

FilledText(p) == p.type = "text" /\ p.value # ""
OverlaysInRange == \A i \in DOMAIN fSignatures : fSignatures[i].page < PageCount

\* How many drawing calls of the output have exactly this kind, page, place
\* and content.
TimesDrawn(kind, page, x, y, content) ==
    Cardinality({j \in DOMAIN drawn :
        /\ drawn[j].kind = kind /\ drawn[j].page = page
        /\ drawn[j].x = x /\ drawn[j].y = y /\ drawn[j].content = content})

\* The string a text placeholder is to show: its value, or its label if the
\* value is empty.
Shown(p) == IF p.value # "" THEN p.value ELSE p.label

\* C5: a call given no overlay and no text placeholder with a value does
\* not start processing: isProcessing stays false and no run is in flight.
C5_RejectsEmptyInput ==
    (fSignatures = <<>> /\ \A i \in DOMAIN fPlaceholders : ~FilledText(fPlaceholders[i]))
        => (~isProcessing /\ pc = "idle")

\* C6: a PDF finalization given an overlay on a page the document has not
\* ends in failure and signedPdfUrl is what it was before the call, whatever
\* else the call was given.
C6_InvalidOverlayPageFails ==
    (pc = "finished" /\ IsPdf /\ ~OverlaysInRange)
        => (outcome.result = "error" /\ signedPdfUrl = priorUrl)

C6_Witness ==
    /\ Finished("error") /\ IsPdf /\ outcome.cause = "page"
    /\ priorUrl # 0 /\ signedPdfUrl = priorUrl
    /\ \E i \in DOMAIN fSignatures : fSignatures[i].page < PageCount
    /\ \E i \in DOMAIN fPlaceholders :
          FilledText(fPlaceholders[i]) /\ fPlaceholders[i].page < PageCount

C8_AllOrNothing ==
    [][(pc' = "finished" /\ outcome'.result = "error")
          => (/\ signedPdfUrl' = priorUrl'
              /\ ~isProcessing'
              /\ UNCHANGED <<signatures, placeholders>>)]_vars

C8_Witness ==
    /\ Finished("error") /\ outcome.cause = "environment"
    /\ drawn # <<>>
    /\ priorUrl # 0 /\ signedPdfUrl = priorUrl /\ ~isProcessing

\* The text placeholders of the call that are on a page of the document and
\* are to show the same string at the same place as p.
SameText(p) ==
    {i \in DOMAIN fPlaceholders :
        /\ fPlaceholders[i].type = "text" /\ fPlaceholders[i].page = p.page
        /\ fPlaceholders[i].x = p.x /\ fPlaceholders[i].y = p.y
        /\ Shown(fPlaceholders[i]) = Shown(p)}

\* C9 as stated: a successful PDF finalization has drawn every text
\* placeholder on a page of the document exactly once at
\* (x, pageHeight - y - 20): its value, or its label if the value is empty.
C9_AsStated ==
    (Finished("success") /\ IsPdf)
        => \A i \in DOMAIN fPlaceholders :
              (fPlaceholders[i].type = "text" /\ fPlaceholders[i].page < PageCount)
                 => TimesDrawn("text", fPlaceholders[i].page, fPlaceholders[i].x,
                               fFile.pages[fPlaceholders[i].page + 1]
                                   - fPlaceholders[i].y - 20,
                               Shown(fPlaceholders[i]))
                    = Cardinality(SameText(fPlaceholders[i]))

\* C9 as amended: a successful PDF finalization has drawn every text
\* placeholder with a non-empty value on a page of the document exactly once
\* at (x, pageHeight - y - 20), as its value, and has drawn no other text: a
\* text placeholder with an empty value is not drawn.
C9_FilledTextDrawnOnce ==
    (Finished("success") /\ IsPdf)
        => /\ \A i \in DOMAIN fPlaceholders :
                 (FilledText(fPlaceholders[i]) /\ fPlaceholders[i].page < PageCount)
                    => TimesDrawn("text", fPlaceholders[i].page, fPlaceholders[i].x,
                                  fFile.pages[fPlaceholders[i].page + 1]
                                      - fPlaceholders[i].y - 20,
                                  fPlaceholders[i].value)
                       = Cardinality({j \in SameText(fPlaceholders[i]) :
                                         fPlaceholders[j].value # ""})
           /\ Cardinality({j \in DOMAIN drawn : drawn[j].kind = "text"})
              = Cardinality({i \in DOMAIN fPlaceholders :
                    FilledText(fPlaceholders[i]) /\ fPlaceholders[i].page < PageCount})

C9_Witness ==
    /\ Finished("success") /\ IsPdf
    /\ \E i, j \in DOMAIN fPlaceholders :
          /\ FilledText(fPlaceholders[i]) /\ fPlaceholders[i].page = 1
          /\ fPlaceholders[j].type = "text" /\ fPlaceholders[j].value = ""
          /\ fPlaceholders[j].page < PageCount
    /\ \E j \in DOMAIN drawn : drawn[j].kind = "text" /\ drawn[j].y = 842 - 30 - 20

\* C10: a successful PDF finalization has drawn every overlay at
\* (x, H - y - 50), H the height of page overlay.page, 200 wide and 50 high,
\* on page overlay.page, and has drawn no other image.
C10_VerticalFlip ==
    (Finished("success") /\ IsPdf)
        => /\ \A i \in DOMAIN fSignatures :
                 \E j \in DOMAIN drawn :
                    /\ drawn[j].kind = "image"
                    /\ drawn[j].page = fSignatures[i].page
                    /\ drawn[j].x = fSignatures[i].x
                    /\ drawn[j].y = fFile.pages[fSignatures[i].page + 1]
                                        - fSignatures[i].y - 50
                    /\ drawn[j].width = 200 /\ drawn[j].height = 50
                    /\ drawn[j].content = fSignatures[i].url
           /\ Cardinality({j \in DOMAIN drawn : drawn[j].kind = "image"})
              = Len(fSignatures)

\* A page 792 high, an overlay at (100, 50): drawn at y = 692.
C10_Witness ==
    /\ Finished("success") /\ IsPdf
    /\ \E i \in DOMAIN fSignatures :
          /\ fSignatures[i].x = 100 /\ fSignatures[i].y = 50
          /\ fFile.pages[fSignatures[i].page + 1] = 792
    /\ \E j \in DOMAIN drawn :
          /\ drawn[j].kind = "image" /\ drawn[j].page = 0
          /\ drawn[j].x = 100 /\ drawn[j].y = 692

----------------------------------------------------------------------------
(* Properties of the canvas path *)

OnCanvas == pc \in {"signatureLoad", "encode", "finished"} /\ canvas # NoCanvas

ImageOps == {j \in DOMAIN drawn : drawn[j].kind = "image"}
TextOps == {j \in DOMAIN drawn : drawn[j].kind = "text"}

C12_TextBoxInsideCanvas ==
    OnCanvas =>
       \A j \in TextOps :
          /\ 0 <= drawn[j].x
          /\ canvas.width >= TextBoxWidth =>
                drawn[j].x + TextBoxWidth <= canvas.width
          /\ \E i \in DOMAIN fPlaceholders :
                drawn[j].x = Min(Max(fPlaceholders[i].x, 0),
                                 canvas.width - TextBoxWidth)

----------------------------------------------------------------------------
(* Properties of the Finalize button *)

InProgress == pc \notin {"idle", "finished"}

\* C13: at most one finalize run is in progress: while a run is in progress
\* isProcessing is true and the Finalize button is rendered disabled, and no
\* click starts a run while isProcessing is true or a run is in progress.
C13_SingleRun ==
    /\ [](InProgress => isProcessing /\ renderedProcessing)
    /\ [][runs' # runs => ~InProgress /\ ~isProcessing]_vars

\* A second run in progress after the first has ended.
C13_Witness ==
    /\ InProgress
    /\ isProcessing /\ renderedProcessing
    /\ runs >= 2

----------------------------------------------------------------------------
(* Properties of the viewer's gestures *)

Owners == {<<calls[j].fn, calls[j].owner>> : j \in DOMAIN calls}

\* C14: isDraggingPlaceholder and isDraggingSignature are never both true,
\* and one pointer-move event is routed to at most one drag owner (one
\* placeholder id or one overlay index).
C14_DragExclusivity ==
    /\ ~(isDraggingPlaceholder /\ isDraggingSignature)
    /\ pointer.event = "move" => Cardinality(Owners) <= 1

\* C15: what a drop, a click or a drag-move at pointer offset p stores while
\* the scale is s is p / s, so that rendered at the same scale s it appears
\* at p again, at every scale and on every page.
C15_RoundTrip ==
    \A j \in DOMAIN calls :
       /\ FracEq(calls[j].x, toDocumentSpace(pointer.x, pointer.scale))
       /\ FracEq(calls[j].y, toDocumentSpace(pointer.y, pointer.scale))
       /\ FracEq(toScreenSpace(calls[j].x, pointer.scale), Frac(pointer.x, 1))
       /\ FracEq(toScreenSpace(calls[j].y, pointer.scale), Frac(pointer.y, 1))

----------------------------------------------------------------------------
(* Properties of the recipient dialog *)

SameRecipient(a, b) ==
    a.id = b.id /\ a.name = b.name /\ a.email = b.email /\ a.status = b.status

\* C16: a switch to without-order sets every order to 1, a switch to
\* with-order sets the order of the recipient at list position i to i (the
\* orders are 1..N, earlier ties are gone); the switch adds, removes and
\* reorders no recipient.
C16_ModeSwitch ==
    dialogOp.op = "handleOrderTypeChange" =>
       /\ Len(recipients) = Len(dialogOp.before)
       /\ \A i \in DOMAIN recipients :
             /\ SameRecipient(recipients[i], dialogOp.before[i])
             /\ recipients[i].order = IF orderType = "without-order" THEN 1 ELSE i
       /\ orderType = "with-order" => Orders(recipients) = 1..Len(recipients)

\* A switch to with-order of a list that had two recipients in one round.
C16_Witness ==
    /\ dialogOp.op = "handleOrderTypeChange"
    /\ orderType = "with-order"
    /\ Len(recipients) >= 2
    /\ dialogOp.before[1].order = dialogOp.before[2].order
    /\ recipients[2].order = 2

IndicesOf(order) == {i \in DOMAIN recipients : recipients[i].order = order}

\* The k-th smallest element of a set of numbers.
Nth(S, n) == CHOOSE i \in S : Cardinality({j \in S : j <= i}) = n

\* C17: the groups are a partition of the recipients by order value, listed
\* in strictly ascending order value, each group in list order, and there are
\* as many groups as distinct order values.
C17_GroupedByRound ==
    LET groups == groupedRecipients(recipients)
        rounds == sortedOrders(recipients)
    IN  /\ \A j \in 1..(Len(rounds) - 1) : rounds[j] < rounds[j + 1]
        /\ Len(rounds) = Cardinality(uniqueOrders(recipients))
        /\ {rounds[j] : j \in DOMAIN rounds} = Orders(recipients)
        /\ \A j \in DOMAIN rounds :
              LET order == rounds[j]
              IN  /\ Len(groups[order]) = Cardinality(IndicesOf(order))
                  /\ \A n \in DOMAIN groups[order] :
                        groups[order][n] = recipients[Nth(IndicesOf(order), n)]

\* Three recipients with the orders 1, 1, 2: two groups, the first of two.
C17_Witness ==
    /\ Len(recipients) = 3
    /\ recipients[1].order = 1 /\ recipients[2].order = 1 /\ recipients[3].order = 2
    /\ sortedOrders(recipients) = <<1, 2>>
    /\ groupedRecipients(recipients)[1] = <<recipients[1], recipients[2]>>
    /\ groupedRecipients(recipients)[2] = <<recipients[3]>>

Blank(text) == \A i \in DOMAIN text : text[i] = " "

Accepted == ~Blank(dialogOp.name) /\ dialogOp.email # <<>>
            /\ \E i \in DOMAIN dialogOp.email : dialogOp.email[i] = "@"

\* C18: addRecipient with an empty or whitespace-only name, an empty email or
\* an email without "@" leaves the list as it is; otherwise it appends one
\* recipient with status pending and, in with-order mode, the order
\* max(existing orders) + 1 (1 for the empty list), in without-order mode 1.
C18_AddValidation ==
    dialogOp.op = "addRecipient" =>
       IF ~Accepted
       THEN recipients = dialogOp.before
       ELSE /\ Len(recipients) = Len(dialogOp.before) + 1
            /\ SubSeq(recipients, 1, Len(dialogOp.before)) = dialogOp.before
            /\ recipients[Len(recipients)].status = "pending"
            /\ recipients[Len(recipients)].order =
                  IF dialogOp.type = "without-order" THEN 1
                  ELSE IF dialogOp.before = <<>> THEN 1
                  ELSE MaxOf(Orders(dialogOp.before)) + 1

\* An accepted add to a list that is not empty, in with-order mode.
C18_Witness ==
    /\ dialogOp.op = "addRecipient"
    /\ Accepted
    /\ dialogOp.type = "with-order"
    /\ dialogOp.before # <<>>
    /\ Len(recipients) = Len(dialogOp.before) + 1

\* C19: every recipient's order is at least 1, and an updateRecipientOrder or
\* a move asking for an order below 1 leaves the list as it is.
C19_OrdersAtLeastOne ==
    /\ \A i \in DOMAIN recipients : recipients[i].order >= 1
    /\ (dialogOp.op \in {"updateRecipientOrder", "moveRecipient"}
        /\ dialogOp.order < 1) => recipients = dialogOp.before

\* The order field asked for -3 while two recipients share a round.
C19_Witness ==
    /\ dialogOp.op = "updateRecipientOrder"
    /\ dialogOp.order < 1
    /\ recipients = dialogOp.before
    /\ \E i, j \in DOMAIN recipients : i # j /\ recipients[i].order = recipients[j].order

----------------------------------------------------------------------------
(* Properties of savePlaceholders *)

Evicted == {key \in Keys : saveOp.before[key] > 0 /\ storage[key] = 0}

\* C20: when the first write of the record fails, savePlaceholders removes
\* the stored keys with the prefix file_ other than file_<documentId> and no
\* other key, writes once more, reports success only if a write succeeded and
\* reports failure if the second write failed as well.
C20_SaveUnderQuota ==
    (saveOp.op = "savePlaceholders" /\ saveOp.firstThrown) =>
       LET record == RecordKey(saveOp.documentId)
       IN  /\ Evicted = {key \in Keys : /\ saveOp.before[key] > 0
                                        /\ key[1] = "file_"
                                        /\ key # <<"file_", saveOp.documentId>>}
           /\ \A key \in Keys \ (Evicted \cup {record}) :
                 storage[key] = saveOp.before[key]
           /\ saveOp.writes = 2
           /\ saveOp.toast \in {"success", "error"}
           /\ saveOp.toast = "success" => storage[record] = saveOp.length
           /\ saveOp.toast = "error" =>
                 /\ storage[record] = saveOp.before[record]
                 /\ Used(storage, Keys \ {record}) + saveOp.length > StorageQuota

\* The first write failed, another document's file was removed, the current
\* document's file was kept and the second write succeeded.
C20_Witness ==
    /\ saveOp.op = "savePlaceholders" /\ saveOp.firstThrown
    /\ saveOp.toast = "success"
    /\ Evicted # {}
    /\ storage[FileKey(saveOp.documentId)] > 0

---------------------------------------------------------------------------
(* Properties of the two stores of the signing page *)

\* C21: no two overlay instances of the store have the same (x, y, page),
\* in any state reached by adding overlays, moving overlays by index, moving
\* placeholders and deleting placeholders.
C21_OverlayUniqueness ==
    \A i, j \in DOMAIN signatures :
        SamePosition(signatures[i], signatures[j]) => i = j

\* A filled signature placeholder has an overlay at exactly its position.
HasOverlay(p) == CountAt(signatures, p) >= 1

Filled(p) == p.type = "signature" /\ p.value # ""

Synced == \A q \in DOMAIN placeholders :
              Filled(placeholders[q]) => HasOverlay(placeholders[q])

PlaceholderMoved(id) == \E x \in XS, y \in YS : handlePlaceholderMove(id, x, y)

OverlayMoved == \E i \in 1..MaxSignatures, x \in XS, y \in YS :
                    handleSignatureMove(i, x, y)

\* The overlays at the position of a filled signature placeholder other than
\* id, and not at the position of placeholder id.
OverlaysOfOthers(id) ==
    {i \in DOMAIN signatures :
        /\ \E q \in DOMAIN placeholders :
              /\ placeholders[q].id # id
              /\ Filled(placeholders[q])
              /\ SamePosition(signatures[i], placeholders[q])
        /\ \A q \in DOMAIN placeholders :
              placeholders[q].id = id => ~SamePosition(signatures[i], placeholders[q])}

\* C22: a placeholder move or an overlay move, made when every filled
\* signature placeholder has an overlay at exactly its (x, y, page), ends with
\* every filled signature placeholder having an overlay at exactly its
\* (x, y, page), also when several moves are handled before the page is
\* rendered again; and moving a placeholder changes no overlay of another
\* placeholder.
C22_MovesKeepSync ==
    [][/\ (Synced /\ (OverlayMoved \/ \E id \in 1..MaxCreates : PlaceholderMoved(id)))
            => Synced'
       /\ \A id \in 1..MaxCreates :
             PlaceholderMoved(id) =>
                \A i \in OverlaysOfOthers(id) : signatures'[i] = signatures[i]]_vars

Dropped == \E env \in {rendered, MountEnv}, type \in Types,
              category \in Categories, x \in XS, y \in YS :
                 Drop(env, type, category, x, y)

Deleted == \E id \in 1..MaxCreates : handleDeletePlaceholder(id)

Ids(list) == {list[i].id : i \in DOMAIN list}

\* C23: a drop adds exactly one record to the page's placeholder store and
\* leaves the records already there as they were; and no step other than an
\* explicit delete (a create, a move, a render) takes a placeholder out of
\* the store.
C23_CreateAddsOne ==
    [][/\ Dropped => /\ Len(placeholders') = Len(placeholders) + 1
                     /\ \A i \in DOMAIN placeholders :
                           placeholders'[i] = placeholders[i]
       /\ ~Deleted => Ids(placeholders) \subseteq Ids(placeholders')]_vars

---------------------------------------------------------------------------
(* Properties of a finalization among the page's handlers *)

\* What a PDF run draws for the lists it was given, when no step fails.
RECURSIVE PdfSignatureLoop(_, _)
PdfSignatureLoop(file, list) ==
    IF list = <<>> THEN <<>>
    ELSE <<PdfSignatureOp(file, Head(list))>> \o PdfSignatureLoop(file, Tail(list))

\* C24: a finalization draws what the lists it was given at its start
\* hold: the creates, moves and deletes the page handles while the run is in
\* flight change neither the lists the run reads nor what it draws.
C24_Snapshot ==
    /\ [](Finished("success") =>
             drawn = PdfSignatureLoop(fFile, fSignatures)
                        \o PdfTextLoop(fFile, TextFields(fPlaceholders)))
    /\ [][(pc \notin {"idle", "finished"})
             => UNCHANGED <<fFile, fSignatures, fPlaceholders>>]_vars

\* A run has succeeded with an overlay drawn where it was when the run
\* started, and the page has moved that overlay during the run.
C24_Witness ==
    /\ Finished("success")
    /\ fSignatures # <<>> /\ Len(signatures) = Len(fSignatures)
    /\ signatures # fSignatures
    /\ placeholders # fPlaceholders
    /\ Len(drawn) = Len(fSignatures)

---------------------------------------------------------------------------
(* Properties of a drag from pointer-down to pointer-up *)

PlaceholderDown(id) == handlePlaceholderMouseDown(id, FALSE)
SignatureDown(index) == handleSignatureMouseDown(index, FALSE)
Moved == \E clientX \in PointerXS, clientY \in PointerYS :
            handleMouseMove(clientX, clientY)

\* The drag owners the viewer's state routes a pointer-move to.
ActiveOwners ==
    (IF isDraggingPlaceholder /\ draggedPlaceholderId # NoId
     THEN {<<"onPlaceholderMove", draggedPlaceholderId>>} ELSE {})
    \cup (IF isDraggingSignature /\ draggingSignatureIndex # NoIndex
          THEN {<<"onSignatureMove", draggingSignatureIndex>>} ELSE {})

\* C25: a pointer-down on a placeholder or an overlay makes it the one drag
\* owner; every pointer-move is routed to the owner of the last pointer-down
\* and to nothing else, until a pointer-up; a pointer-up leaves no owner, and
\* a pointer-move without an owner calls no move handler.
C25_PointerUpEndsDrag ==
    [][/\ \A id \in 1..MaxIds :
             PlaceholderDown(id) => ActiveOwners' = {<<"onPlaceholderMove", id>>}
       /\ \A index \in 0..(MaxIndex - 1) :
             SignatureDown(index) => ActiveOwners' = {<<"onSignatureMove", index>>}
       /\ Moved => (Owners' = ActiveOwners /\ ActiveOwners' = ActiveOwners)
       /\ handleMouseUp => ActiveOwners' = {}]_vars

---------------------------------------------------------------------------
(* Properties of a run from its start to its end *)

\* C26: every finalize run that has set isProcessing ends; when it has
\* ended isProcessing is false, and either it has succeeded and signedPdfUrl
\* is the run's new artifact, or it has failed, reported the error and left
\* signedPdfUrl as it was before the call.
C26_RunEnds ==
    /\ isProcessing ~> (pc = "finished" /\ ~isProcessing)
    /\ [](pc = "finished" =>
             /\ ~isProcessing
             /\ \/ outcome.result = "success" /\ signedPdfUrl = runs
                   /\ signedPdfUrl # priorUrl
                \/ outcome.result = "error" /\ signedPdfUrl = priorUrl)

\* A run has ended by a rejected await after part of the drawing was done.
C26_Witness ==
    /\ Finished("error") /\ outcome.cause = "environment"
    /\ ~isProcessing /\ renderedProcessing
    /\ signedPdfUrl = priorUrl
    /\ k = 2

---------------------------------------------------------------------------
(* Properties of the page index and of zoom *)

\* C27: what a drop or a click on the viewer creates is stored with page
\* = the page number displayed at that moment - 1, a page index of the
\* document, after any navigation and zoom.
C27_PageIndex ==
    [][(pageNumber' = pageNumber /\ pointer'.event \in {"drop", "click"})
          => \A j \in DOMAIN calls' :
                /\ calls'[j].page = pageNumber - 1
                /\ calls'[j].page \in 0..(NumPages - 1)]_vars

Zoomed == handleZoomIn \/ handleZoomOut

ZoomLevels == {MinScale + ZoomStep * n : n \in 0..((MaxScale - MinScale) \div ZoomStep)}

\* C28 as stated: from 1.0, the scale after any zooming is exactly one of
\* 0.6, 0.8, ..., 2.0; zoom-in at 2.0 and zoom-out at 0.6 leave it as it is;
\* zooming changes no stored coordinate.
C28_AsStated ==
    /\ [](scale \in ZoomLevels /\ drift = 0)
    /\ [][/\ (handleZoomIn /\ scale = MaxScale /\ drift = 0) => UNCHANGED <<scale, drift>>
          /\ (handleZoomOut /\ scale = MinScale /\ drift = 0) => UNCHANGED <<scale, drift>>
          /\ Zoomed => UNCHANGED <<signatures, placeholders>>]_vars

\* C28 as amended: the scale stays within [0.6, 2.0] (so above 0) and
\* within 3 units in the last place of one of 0.6, 0.8, ..., 2.0; zoom-in at
\* 2.0 and zoom-out at 0.6 leave it as it is; zooming changes no stored
\* coordinate.
C28_ZoomRange ==
    /\ [](/\ scale \in ZoomLevels
          /\ drift \in -1..3
          /\ scale = MinScale => drift >= 0
          /\ scale = MaxScale => drift <= 0)
    /\ [][/\ (handleZoomIn /\ scale = MaxScale /\ drift = 0) => UNCHANGED <<scale, drift>>
          /\ (handleZoomOut /\ scale = MinScale /\ drift = 0) => UNCHANGED <<scale, drift>>
          /\ Zoomed => UNCHANGED <<signatures, placeholders>>]_vars

\* Three zoom-ins from 1.0: the scale is 1.5999999999999999.
C28_Witness ==
    /\ scale = MountScale + ZoomStep + ZoomStep + ZoomStep
    /\ drift = -1

---------------------------------------------------------------------------
(* Properties of the dialog's without-order mode *)

\* C29: while the dialog is in without-order mode every recipient has
\* order 1, after any adds, removes and mode switches, and moveRecipient
\* leaves the list as it is in that mode.
C29_SimultaneousMode ==
    orderType = "without-order" =>
       /\ \A i \in DOMAIN recipients : recipients[i].order = 1
       /\ \A id \in 1..MaxTime, direction \in {"up", "down"} :
             moveRecipient(recipients, orderType, id, direction) = recipients

\* Two recipients, the second added in without-order mode after the first
\* was brought into it by the mode switch.
C29_Witness ==
    /\ orderType = "without-order"
    /\ dialogOp.op = "addRecipient"
    /\ Len(recipients) >= 2
    /\ recipients[Len(recipients)].id = dialogOp.id
    /\ recipients[1].id < dialogOp.id

---------------------------------------------------------------------------
(* Properties of a document's record *)

PlaceholdersSaved ==
    \E length \in RecordLengths : onSavePlaceholders(PageDocument, length)

RecipientsSaved ==
    \E newRecipients \in RecipientLists, length \in RecordLengths :
       onSaveRecipients(PageDocument, newRecipients, length)

\* C30: saving placeholders leaves the recipients persisted in the
\* document's record as they were, and saving recipients leaves the persisted
\* placeholders and documentName as they were, in whichever order the two are
\* saved.
C30_IndependentSaves ==
    [][/\ PlaceholdersSaved =>
             Get(records'[PageDocument], "recipients")
                = Get(records[PageDocument], "recipients")
       /\ RecipientsSaved =>
             /\ Get(records'[PageDocument], "placeholders")
                   = Get(records[PageDocument], "placeholders")
             /\ Get(records'[PageDocument], "documentName")
                   = Get(records[PageDocument], "documentName")]_vars

====
